---- MODULE Spec2Model ----
(***************************************************************************)
(* itchio/pelican: probing of PE images.                                   *)
(*                                                                         *)
(* A byte source is a sequence of bytes (0..255); the byte at Go offset i  *)
(* is element i+1.  32-bit fields are kept as pairs <<hi16, lo16>> so that *)
(* uint32 arithmetic wraps modulo 2^32 and int64 sums do not.              *)
(***************************************************************************)
EXTENDS Integers, Sequences, FiniteSets, TLC

\* ------------------------------------------------------------------------
\* Fixed-width arithmetic (encoding/binary.LittleEndian, uint32, int64)
\* ------------------------------------------------------------------------

\* the uint32 of a small natural
U(n) == <<n \div 65536, n % 65536>>

Zero32 == <<0, 0>>

\* binary.LittleEndian.Uint16(b)
Uint16(b) == b[1] + 256 * b[2]

\* binary.LittleEndian.Uint32(b)
Uint32(b) == <<b[3] + 256 * b[4], b[1] + 256 * b[2]>>

\* int64(a) + int64(b): no wrap, the high half may exceed 16 bits
Add64(a, b) ==
    LET lo == a[2] + b[2]
    IN  <<a[1] + b[1] + (lo \div 65536), lo % 65536>>

\* a + b in uint32: wraps modulo 2^32
Add32(a, b) ==
    LET s == Add64(a, b)
    IN  <<s[1] % 65536, s[2]>>

\* a - b in uint32: wraps modulo 2^32
Sub32(a, b) ==
    LET lo == a[2] - b[2]
        borrow == IF lo < 0 THEN 1 ELSE 0
    IN  <<(a[1] - b[1] - borrow) % 65536, lo % 65536>>

\* k * a in uint32 for a small constant k: wraps modulo 2^32
Mul32(k, a) ==
    LET lo == k * a[2]
    IN  <<(k * a[1] + (lo \div 65536)) % 65536, lo % 65536>>

\* a <= b on int64 values
Le64(a, b) == a[1] < b[1] \/ (a[1] = b[1] /\ a[2] <= b[2])

\* a >= n for a length n of a slice held in memory (n < 65536)
GeLen(a, n) == a[1] > 0 \/ a[2] >= n

\* int(a) for a value known to be below a slice or file length
ToInt(a) == a[2]

\* n zero bytes
Zeros(n) == [i \in 1..n |-> 0]

\* s[from:] of a Go slice, from <= len(s)
SliceFrom(s, from) == SubSeq(s, from + 1, Len(s))

\* s[from:to] of a Go slice
Slice(s, from, to) == SubSeq(s, from + 1, to)

\* ------------------------------------------------------------------------
\* The byte source (io.ReaderAt over a file of known size)
\* ------------------------------------------------------------------------

\* r.ReadAt(p, off) with len(p) = n: the bytes read, and whether an error
\* (io.EOF) came with them; a ReaderAt returns an error whenever it reads
\* fewer than len(p) bytes.  off is an int64 held as <<hi, lo>>.
ReadAt(r, off, n) ==
    IF GeLen(off, Len(r))
    THEN [data |-> <<>>, err |-> n > 0]
    ELSE LET o == ToInt(off)
             m == IF o + n <= Len(r) THEN n ELSE Len(r) - o
         IN  [data |-> Slice(r, o, o + m), err |-> m < n]

\* binary.Read(sr, binary.LittleEndian, &v) for a v of n bytes, where
\* sr = io.NewSectionReader(r, 0, size) stands at pos: io.ReadFull fails
\* (io.EOF or io.ErrUnexpectedEOF) unless n bytes are left before size.
BinaryRead(r, size, pos, n) ==
    IF pos + n <= size /\ pos + n <= Len(r)
    THEN [ok |-> TRUE, data |-> Slice(r, pos, pos + n), pos |-> pos + n]
    ELSE [ok |-> FALSE, data |-> <<>>, pos |-> pos]

\* sr.Seek(int64(off), seekStart) followed by binary.Read of n bytes; off
\* is a uint32 field of the file.  Seeking past the end is allowed, the
\* read then fails.
SeekRead(r, size, off, n) ==
    IF GeLen(off, size + 1)
    THEN [ok |-> FALSE, data |-> <<>>, pos |-> 0]
    ELSE BinaryRead(r, size, ToInt(off), n)

\* ------------------------------------------------------------------------
\* Format constants
\* ------------------------------------------------------------------------

IMAGE_FILE_MACHINE_UNKNOWN == 0
IMAGE_FILE_MACHINE_I386 == 332
IMAGE_FILE_MACHINE_AMD64 == 34404

\* var dosheader [96]byte
DosHeaderSize == 96
\* binary.Size(FileHeader{})
FileHeaderSize == 20
\* binary.Size(OptionalHeader32{}), binary.Size(OptionalHeader64{})
sizeofOptionalHeader32 == 224
sizeofOptionalHeader64 == 240
\* binary.Size(SectionHeader32{})
SectionHeaderSize == 40
\* binary.Size(COFFSymbol{}), binary.Size(Reloc{})
COFFSymbolSize == 18
RelocSize == 10
\* binary.Size(ImageImportDescriptor{})
ImportDescriptorSize == 20

Magic32 == 267
Magic64 == 523

DosSignature == <<77, 90>>
PeSignature == <<80, 69, 0, 0>>
RsrcName == <<46, 114, 115, 114, 99>>

\* ------------------------------------------------------------------------
\* Strings
\* ------------------------------------------------------------------------

\* the index (from 0) of the first zero byte of b at or after i, or len(b)
RECURSIVE IndexOfNul(_, _)
IndexOfNul(b, i) ==
    IF i >= Len(b) THEN Len(b)
    ELSE IF b[i + 1] = 0 THEN i
    ELSE IndexOfNul(b, i + 1)

\* cstring(b): the bytes of b before its first zero byte, all of b if none
cstring(b) == Slice(b, 0, IndexOfNul(b, 0))

\* getString(section, start): start is int(x) of a uint32 x, so it is never
\* negative on a 64-bit int
getString(section, start) ==
    IF GeLen(start, Len(section))
    THEN [s |-> <<>>, ok |-> FALSE]
    ELSE LET end == IndexOfNul(section, ToInt(start))
         IN  IF end < Len(section)
             THEN [s |-> Slice(section, ToInt(start), end), ok |-> TRUE]
             ELSE [s |-> <<>>, ok |-> FALSE]

\* strconv.Atoi of a byte string: decimal digits only, not empty
RECURSIVE AtoiFrom(_, _, _)
AtoiFrom(b, i, acc) ==
    IF i > Len(b) THEN acc
    ELSE IF b[i] < 48 \/ b[i] > 57 THEN -1
    ELSE AtoiFrom(b, i + 1, 10 * acc + (b[i] - 48))

Atoi(b) == IF Len(b) = 0 THEN -1 ELSE AtoiFrom(b, 1, 0)

\* StringTable.String(start)
StringTableString(st, start) ==
    IF ~GeLen(start, 4) THEN [s |-> <<>>, ok |-> FALSE]
    ELSE LET off == Sub32(start, U(4))
         IN  IF GeLen(off, Len(st) + 1) THEN [s |-> <<>>, ok |-> FALSE]
             ELSE [s |-> cstring(SliceFrom(st, ToInt(off))), ok |-> TRUE]

\* ------------------------------------------------------------------------
\* COFF string table, symbols, relocations
\* ------------------------------------------------------------------------

DecodeFileHeader(b) ==
    [Machine |-> Uint16(Slice(b, 0, 2)),
     NumberOfSections |-> Uint16(Slice(b, 2, 4)),
     PointerToSymbolTable |-> Uint32(Slice(b, 8, 12)),
     NumberOfSymbols |-> Uint32(Slice(b, 12, 16)),
     SizeOfOptionalHeader |-> Uint16(Slice(b, 16, 18))]

\* readStringTable(f, fh, sr): the table follows the symbol table; its first
\* four bytes are its length, themselves included
readStringTable(fh, r, size) ==
    IF fh.PointerToSymbolTable = Zero32 THEN [ok |-> TRUE, st |-> <<>>]
    ELSE LET offset == Add32(fh.PointerToSymbolTable,
                             Mul32(COFFSymbolSize, fh.NumberOfSymbols))
             l == SeekRead(r, size, offset, 4)
         IN  IF ~l.ok THEN [ok |-> FALSE, st |-> <<>>]
             ELSE IF ~GeLen(Uint32(l.data), 5) THEN [ok |-> TRUE, st |-> <<>>]
             ELSE IF GeLen(Uint32(l.data), size + 5)
                  THEN [ok |-> FALSE, st |-> <<>>]
             ELSE LET buf == BinaryRead(r, size, l.pos,
                                        ToInt(Uint32(l.data)) - 4)
                  IN  [ok |-> buf.ok, st |-> buf.data]

\* readCOFFSymbols(f, fh, sr): NumberOfSymbols records of 18 bytes
readCOFFSymbols(fh, r, size) ==
    IF fh.PointerToSymbolTable = Zero32 \/ fh.NumberOfSymbols = Zero32
    THEN [ok |-> TRUE, data |-> <<>>]
    ELSE IF GeLen(fh.NumberOfSymbols, size + 1)
         THEN [ok |-> FALSE, data |-> <<>>]
    ELSE LET syms == SeekRead(r, size, fh.PointerToSymbolTable,
                              COFFSymbolSize * ToInt(fh.NumberOfSymbols))
         IN  [ok |-> syms.ok, data |-> syms.data]

\* removeAuxSymbols(allsyms, st): whether every primary symbol's name
\* resolves; the auxiliary records a symbol announces are skipped
RECURSIVE removeAuxSymbols(_, _, _, _)
removeAuxSymbols(allsyms, st, i, aux) ==
    IF COFFSymbolSize * (i + 1) > Len(allsyms) THEN TRUE
    ELSE IF aux > 0 THEN removeAuxSymbols(allsyms, st, i + 1, aux - 1)
    ELSE LET sym == Slice(allsyms, COFFSymbolSize * i,
                          COFFSymbolSize * (i + 1))
             named == IF Slice(sym, 0, 4) = Zeros(4)
                      THEN StringTableString(st, Uint32(Slice(sym, 4, 8))).ok
                      ELSE TRUE
         IN  named /\ removeAuxSymbols(allsyms, st, i + 1, sym[18])

\* sh.fullName(st): the 8-byte name, or, after a '/', the decimal offset of
\* the name in the string table
fullName(name8, st) ==
    IF name8[1] # 47 THEN [s |-> cstring(name8), ok |-> TRUE]
    ELSE LET i == Atoi(cstring(SliceFrom(name8, 1)))
         IN  IF i < 0 THEN [s |-> <<>>, ok |-> FALSE]
             ELSE StringTableString(st, U(i))

\* readRelocs(sh, sr): NumberOfRelocations records of 10 bytes at
\* PointerToRelocations
readRelocs(sh, r, size) ==
    IF sh.NumberOfRelocations = 0 THEN TRUE
    ELSE SeekRead(r, size, sh.PointerToRelocations,
                  RelocSize * sh.NumberOfRelocations).ok

\* ------------------------------------------------------------------------
\* NewFile
\* ------------------------------------------------------------------------

NoFile ==
    [ok |-> FALSE, err |-> "", Machine |-> 0, OptionalHeader |-> "none",
     ImportDirectory |-> [VirtualAddress |-> Zero32, Size |-> Zero32],
     Sections |-> <<>>]

Fail(kind) == [NoFile EXCEPT !.err = kind]

SignatureOkFirstTwo(sign) == sign[1] = 80 /\ sign[2] = 69

\* sign[0] == 'P' && sign[1] == 'E' && sign[2] == 0 && sign[3] == 0
SignatureOk(sign) == sign = PeSignature

\* the DOS stub: the position of the COFF file header, or an error
DosStage(r) ==
    LET dosheader == ReadAt(r, Zero32, DosHeaderSize)
    IN  IF dosheader.err THEN [err |-> "read", base |-> 0]
        ELSE IF Slice(dosheader.data, 0, 2) = DosSignature
        THEN LET signoff == Uint32(SliceFrom(dosheader.data, 60))
                 sign == ReadAt(r, signoff, 4)
             IN  IF sign.err THEN [err |-> "read", base |-> 0]
                 ELSE IF ~SignatureOk(sign.data)
                      THEN [err |-> "signature", base |-> 0]
                 ELSE [err |-> "", base |-> ToInt(signoff) + 4]
        ELSE [err |-> "", base |-> 0]

MachineAcceptedAny(machine) == TRUE

\* switch f.FileHeader.Machine
MachineAccepted(machine) ==
    machine \in {IMAGE_FILE_MACHINE_UNKNOWN, IMAGE_FILE_MACHINE_AMD64,
                 IMAGE_FILE_MACHINE_I386}

OptionalHeaderStageAnyMagic(fh, r, size, pos) ==
    IF fh.SizeOfOptionalHeader = sizeofOptionalHeader32
    THEN LET oh32 == BinaryRead(r, size, pos, sizeofOptionalHeader32)
         IN  IF ~oh32.ok THEN [err |-> "read"]
             ELSE [err |-> "", kind |-> "oh32", pos |-> oh32.pos,
                   dd |-> [VirtualAddress |-> Uint32(Slice(oh32.data, 104, 108)),
                           Size |-> Uint32(Slice(oh32.data, 108, 112))]]
    ELSE IF fh.SizeOfOptionalHeader = sizeofOptionalHeader64
    THEN LET oh64 == BinaryRead(r, size, pos, sizeofOptionalHeader64)
         IN  IF ~oh64.ok THEN [err |-> "read"]
             ELSE [err |-> "", kind |-> "oh64", pos |-> oh64.pos,
                   dd |-> [VirtualAddress |-> Uint32(Slice(oh64.data, 120, 124)),
                           Size |-> Uint32(Slice(oh64.data, 124, 128))]]
    ELSE [err |-> "", kind |-> "none", pos |-> pos,
          dd |-> [VirtualAddress |-> Zero32, Size |-> Zero32]]

\* the optional header, chosen by SizeOfOptionalHeader alone; DataDirectory[1]
\* is the import directory
OptionalHeaderStage(fh, r, size, pos) ==
    IF fh.SizeOfOptionalHeader = sizeofOptionalHeader32
    THEN LET oh32 == BinaryRead(r, size, pos, sizeofOptionalHeader32)
         IN  IF ~oh32.ok THEN [err |-> "read"]
             ELSE IF Uint16(oh32.data) # Magic32 THEN [err |-> "magic"]
             ELSE [err |-> "", kind |-> "oh32", pos |-> oh32.pos,
                   dd |-> [VirtualAddress |-> Uint32(Slice(oh32.data, 104, 108)),
                           Size |-> Uint32(Slice(oh32.data, 108, 112))]]
    ELSE IF fh.SizeOfOptionalHeader = sizeofOptionalHeader64
    THEN LET oh64 == BinaryRead(r, size, pos, sizeofOptionalHeader64)
         IN  IF ~oh64.ok THEN [err |-> "read"]
             ELSE IF Uint16(oh64.data) # Magic64 THEN [err |-> "magic"]
             ELSE [err |-> "", kind |-> "oh64", pos |-> oh64.pos,
                   dd |-> [VirtualAddress |-> Uint32(Slice(oh64.data, 120, 124)),
                           Size |-> Uint32(Slice(oh64.data, 124, 128))]]
    ELSE [err |-> "", kind |-> "none", pos |-> pos,
          dd |-> [VirtualAddress |-> Zero32, Size |-> Zero32]]

ZeroReaderNever(PointerToRawData) == FALSE

\* r2: whether the section reads from zeroReaderAt instead of the source
ZeroReader(PointerToRawData) == PointerToRawData = Zero32

\* one section header
DecodeSection(sh, name) ==
    [Name |-> name,
     VirtualSize |-> Uint32(Slice(sh, 8, 12)),
     VirtualAddress |-> Uint32(Slice(sh, 12, 16)),
     Size |-> Uint32(Slice(sh, 16, 20)),
     Offset |-> Uint32(Slice(sh, 20, 24)),
     PointerToRelocations |-> Uint32(Slice(sh, 24, 28)),
     NumberOfRelocations |-> Uint16(Slice(sh, 32, 34)),
     zero |-> ZeroReader(Uint32(Slice(sh, 20, 24)))]

\* the section table: n more headers from pos on
RECURSIVE ReadSections(_, _, _, _, _, _)
ReadSections(r, size, st, pos, n, acc) ==
    IF n = 0 THEN [err |-> "", Sections |-> acc]
    ELSE LET sh == BinaryRead(r, size, pos, SectionHeaderSize)
         IN  IF ~sh.ok THEN [err |-> "read", Sections |-> <<>>]
             ELSE LET name == fullName(Slice(sh.data, 0, 8), st)
                  IN  IF ~name.ok THEN [err |-> "name", Sections |-> <<>>]
                      ELSE ReadSections(r, size, st, sh.pos, n - 1,
                               Append(acc, DecodeSection(sh.data, name.s)))

\* NewFile(r, size)
NewFile(r, size) ==
    LET dos == DosStage(r)
    IN  IF dos.err # "" THEN Fail(dos.err)
        ELSE
    LET hdr == BinaryRead(r, size, dos.base, FileHeaderSize)
    IN  IF ~hdr.ok THEN Fail("read")
        ELSE
    LET fh == DecodeFileHeader(hdr.data)
    IN  IF ~MachineAccepted(fh.Machine) THEN Fail("machine")
        ELSE
    LET st == readStringTable(fh, r, size)
    IN  IF ~st.ok THEN Fail("strtab")
        ELSE
    LET syms == readCOFFSymbols(fh, r, size)
    IN  IF ~syms.ok \/ ~removeAuxSymbols(syms.data, st.st, 0, 0)
        THEN Fail("symbols")
        ELSE
    LET oh == OptionalHeaderStage(fh, r, size, hdr.pos)
    IN  IF oh.err # "" THEN Fail(oh.err)
        ELSE
    LET secs == ReadSections(r, size, st.st, oh.pos, fh.NumberOfSections, <<>>)
    IN  IF secs.err # "" THEN Fail(secs.err)
        ELSE IF \E i \in 1..Len(secs.Sections) :
                    ~readRelocs(secs.Sections[i], r, size)
        THEN Fail("relocs")
        ELSE [ok |-> TRUE, err |-> "", Machine |-> fh.Machine,
              OptionalHeader |-> oh.kind, ImportDirectory |-> oh.dd,
              Sections |-> secs.Sections]

\* ------------------------------------------------------------------------
\* Section contents
\* ------------------------------------------------------------------------

\* zeroReaderAt.ReadAt(p, off) with len(p) = n: n zero bytes, no error
zeroReaderAt(n) == [data |-> Zeros(n), err |-> FALSE]

\* s.ReadAt(p, off) with len(p) = n, through
\* s.sr = io.NewSectionReader(r2, int64(Offset), int64(Size)).
\* reads: the (offset, length) pairs read from the byte source itself.
SectionReadAt(s, r, off, n) ==
    IF Le64(s.Size, U(off))
    THEN [data |-> <<>>, err |-> TRUE, reads |-> {}]
    ELSE LET short == ~Le64(U(off + n), s.Size)
             m == IF short THEN ToInt(s.Size) - off ELSE n
             at == Add64(s.Offset, U(off))
         IN  IF s.zero
             THEN [data |-> zeroReaderAt(m).data, err |-> short, reads |-> {}]
             ELSE LET got == ReadAt(r, at, m)
                  IN  [data |-> got.data, err |-> got.err \/ short,
                       reads |-> {<<at, m>>}]

\* s.Data(): the whole of the section, or an error when the source ends
\* before Offset+Size
Data(s, r) ==
    IF s.zero THEN [data |-> Zeros(ToInt(s.Size)), err |-> FALSE]
    ELSE IF s.Size = Zero32 THEN [data |-> <<>>, err |-> FALSE]
    ELSE IF GeLen(s.Offset, Len(r)) \/
            GeLen(s.Size, Len(r) - ToInt(s.Offset) + 1)
         THEN [data |-> <<>>, err |-> TRUE]
    ELSE [data |-> Slice(r, ToInt(s.Offset), ToInt(s.Offset) + ToInt(s.Size)),
          err |-> FALSE]

SectionAnyName(f, name) == IF Len(f.Sections) > 0 THEN 1 ELSE 0

\* f.Section(name): the index of the first section of that name, 0 if none
Section(f, name) ==
    IF \E i \in 1..Len(f.Sections) : f.Sections[i].Name = name
    THEN CHOOSE i \in 1..Len(f.Sections) :
             /\ f.Sections[i].Name = name
             /\ \A j \in 1..(i - 1) : f.Sections[j].Name # name
    ELSE 0

\* ------------------------------------------------------------------------
\* Imports
\* ------------------------------------------------------------------------

ContainsStart(s, dd) == Le64(s.VirtualAddress, dd.VirtualAddress)

\* sStart <= iStart && iEnd <= sEnd
Contains(s, dd) ==
    /\ Le64(s.VirtualAddress, dd.VirtualAddress)
    /\ Le64(Add64(dd.VirtualAddress, dd.Size),
            Add64(s.VirtualAddress, s.VirtualSize))

\* ds: the index of the first section containing the import directory, 0
\* if there is none
ImportSection(f) ==
    IF \E i \in 1..Len(f.Sections) : Contains(f.Sections[i], f.ImportDirectory)
    THEN CHOOSE i \in 1..Len(f.Sections) :
             /\ Contains(f.Sections[i], f.ImportDirectory)
             /\ \A j \in 1..(i - 1) :
                    ~Contains(f.Sections[j], f.ImportDirectory)
    ELSE 0

\* the descriptor loop over idBlock = sectionData[pos:]; slicing a block
\* of 1..19 bytes panics
RECURSIVE ReadDescriptors(_, _, _)
ReadDescriptors(sectionData, pos, acc) ==
    IF Len(sectionData) - pos <= 0 THEN [panic |-> FALSE, dirs |-> acc]
    ELSE IF Len(sectionData) - pos < ImportDescriptorSize
         THEN [panic |-> TRUE, dirs |-> acc]
    ELSE LET dt == [OriginalFirstThunk |->
                        Uint32(Slice(sectionData, pos, pos + 4)),
                    Name |-> Uint32(Slice(sectionData, pos + 12, pos + 16)),
                    FirstThunk |->
                        Uint32(Slice(sectionData, pos + 16, pos + 20))]
         IN  IF dt.OriginalFirstThunk = Zero32
             THEN [panic |-> FALSE, dirs |-> acc]
             ELSE ReadDescriptors(sectionData, pos + ImportDescriptorSize,
                                  Append(acc, dt))

\* the part ImportedLibraries and ImportedSymbols share: the section, its
\* data from the directory on, the descriptors
ImportDirectories(f, r) ==
    LET ds == ImportSection(f)
    IN  IF ds = 0
        THEN [outcome |-> "none", sectionData |-> <<>>, dirs |-> <<>>]
        ELSE
    LET d == Data(f.Sections[ds], r)
        from == Sub32(f.ImportDirectory.VirtualAddress,
                      f.Sections[ds].VirtualAddress)
    IN  IF d.err
        THEN [outcome |-> "err", sectionData |-> <<>>, dirs |-> <<>>]
        ELSE IF GeLen(from, Len(d.data) + 1)
        THEN [outcome |-> "panic", sectionData |-> <<>>, dirs |-> <<>>]
        ELSE
    LET sectionData == SliceFrom(d.data, ToInt(from))
        ids == ReadDescriptors(sectionData, 0, <<>>)
    IN  [outcome |-> IF ids.panic THEN "panic" ELSE "ok",
         sectionData |-> sectionData, dirs |-> ids.dirs]

\* dll, _ := getString(sectionData, int(dt.Name-importTableAddress.VirtualAddress))
DllName(f, sectionData, dt) ==
    getString(sectionData, Sub32(dt.Name, f.ImportDirectory.VirtualAddress)).s

\* f.ImportedLibraries()
ImportedLibraries(f, r) ==
    LET w == ImportDirectories(f, r)
    IN  IF w.outcome = "none" THEN [outcome |-> "ok", list |-> <<>>]
        ELSE IF w.outcome # "ok" THEN [outcome |-> w.outcome, list |-> <<>>]
        ELSE [outcome |-> "ok",
              list |-> [i \in 1..Len(w.dirs) |->
                           DllName(f, w.sectionData, w.dirs[i])]]

IsOrdinalBit31(entry) == entry[4] >= 128

\* va&0x80000000 > 0, va&0x8000000000000000 > 0: the top bit of the entry
IsOrdinal(entry) == entry[Len(entry)] >= 128

\* the thunk loop of one descriptor over thunkDataBlock = sectionData[pos:];
\* slicing a block shorter than an entry panics
RECURSIVE WalkThunks(_, _, _, _, _, _)
WalkThunks(f, sectionData, pos, width, dll, acc) ==
    IF Len(sectionData) - pos <= 0 THEN [panic |-> FALSE, syms |-> acc]
    ELSE IF Len(sectionData) - pos < width
         THEN [panic |-> TRUE, syms |-> acc]
    ELSE LET entry == Slice(sectionData, pos, pos + width)
         IN  IF entry = Zeros(width) THEN [panic |-> FALSE, syms |-> acc]
             ELSE IF IsOrdinal(entry)
             THEN WalkThunks(f, sectionData, pos + width, width, dll, acc)
             ELSE LET fn == getString(sectionData,
                                Add32(Sub32(Uint32(Slice(entry, 0, 4)),
                                            f.ImportDirectory.VirtualAddress),
                                      U(2))).s
                  IN  WalkThunks(f, sectionData, pos + width, width, dll,
                                 Append(acc, fn \o <<58>> \o dll))

\* the loop over importDirectories from descriptor i on
RECURSIVE WalkDescriptors(_, _, _, _, _)
WalkDescriptors(f, w, i, width, acc) ==
    IF i > Len(w.dirs) THEN [outcome |-> "ok", list |-> acc]
    ELSE LET dt == w.dirs[i]
             dll == DllName(f, w.sectionData, dt)
             from == Sub32(dt.OriginalFirstThunk,
                           f.ImportDirectory.VirtualAddress)
         IN  IF GeLen(from, Len(w.sectionData) + 1)
             THEN [outcome |-> "panic", list |-> <<>>]
             ELSE LET t == WalkThunks(f, w.sectionData, ToInt(from), width,
                                      dll, acc)
                  IN  IF t.panic THEN [outcome |-> "panic", list |-> <<>>]
                      ELSE WalkDescriptors(f, w, i + 1, width, t.syms)

\* f.ImportedSymbols()
ImportedSymbols(f, r) ==
    LET w == ImportDirectories(f, r)
        pe64 == f.Machine = IMAGE_FILE_MACHINE_AMD64
    IN  IF w.outcome = "none" THEN [outcome |-> "ok", list |-> <<>>]
        ELSE IF w.outcome # "ok" THEN [outcome |-> w.outcome, list |-> <<>>]
        ELSE WalkDescriptors(f, w, 1, IF pe64 THEN 8 ELSE 4, <<>>)

\* ------------------------------------------------------------------------
\* Byte sources: images laid out from a description
\* ------------------------------------------------------------------------

MaxDlls == 2
MaxThunks == 2
MaxReadOff == 4
MaxReadLen == 3

LE16B(n) == <<n % 256, n \div 256>>

LE32B(u) == LE16B(u[2]) \o LE16B(u[1])

Pad(b, n) == b \o Zeros(n - Len(b))

RECURSIVE Concat(_)
Concat(ss) == IF Len(ss) = 0 THEN <<>> ELSE Head(ss) \o Concat(Tail(ss))

\* a value with the top bit set, beyond every slice
Far32 == <<65535, 65520>>

\* thunk entries (and string slots) of the libraries before library i
RECURSIVE EntriesBefore(_, _)
EntriesBefore(imports, i) ==
    IF i <= 1 THEN 0
    ELSE EntriesBefore(imports, i - 1) + Len(imports[i - 1].thunks) + 1

\* The import data of a section, from the directory on: the descriptors and
\* their zero terminator, one zero-terminated thunk array per library, then
\* 8-byte string slots (per library: a hint/name slot per thunk, then the
\* library name).  A name marked "open" fills its slot without a zero byte.
ImportData(imports, dirVA, width) ==
    LET n == Len(imports)
        D == ImportDescriptorSize * (n + 1)
        S == D + width * EntriesBefore(imports, n + 1)
        SlotRVA(k) == Add32(dirVA, U(S + 8 * k))
        ThunkRVA(i) == Add32(dirVA, U(D + width * EntriesBefore(imports, i)))
        NameRVA(i) ==
            CASE imports[i].nameAt = "far" -> Add32(dirVA, <<1, 0>>)
              [] imports[i].nameAt = "before" -> Sub32(dirVA, U(4))
              [] OTHER -> SlotRVA(EntriesBefore(imports, i)
                                  + Len(imports[i].thunks))
        Descriptor(i) ==
            LE32B(ThunkRVA(i)) \o Zeros(8) \o LE32B(NameRVA(i))
                \o LE32B(ThunkRVA(i))
        Entry(i, k) ==
            LET t == imports[i].thunks[k]
            IN  CASE t.kind = "ord" -> Pad(<<k>>, width - 1) \o <<128>>
                  [] t.kind = "far" -> Pad(LE32B(Add32(dirVA, <<1, 0>>)), width)
                  [] OTHER ->
                       Pad(LE32B(SlotRVA(EntriesBefore(imports, i) + k - 1)),
                           width)
        Thunks(i) ==
            Concat([k \in 1..Len(imports[i].thunks) |-> Entry(i, k)])
                \o Zeros(width)
        Slots(i) ==
            Concat([k \in 1..Len(imports[i].thunks) |->
                       Pad(<<0, 0>> \o imports[i].thunks[k].fn, 8)])
                \o (IF imports[i].nameAt = "open"
                    THEN [j \in 1..8 |-> 120]
                    ELSE Pad(imports[i].name, 8))
    IN  Concat([i \in 1..n |-> Descriptor(i)]) \o Zeros(ImportDescriptorSize)
            \o Concat([i \in 1..n |-> Thunks(i)])
            \o Concat([i \in 1..n |-> Slots(i)])

\* bytes of raw data of the sections before section i
RECURSIVE RawBefore(_, _)
RawBefore(secs, i) ==
    IF i <= 1 THEN 0 ELSE RawBefore(secs, i - 1) + Len(secs[i - 1].raw)

\* The bytes of an image description d.
Build(d) ==
    LET dos == IF d.mz
               THEN DosSignature \o Zeros(58) \o LE32B(d.lfanew)
                        \o Zeros(d.hdrAt - 64) \o d.sig
               ELSE <<>>
        n == Len(d.secs)
        ohLen == IF d.optsize \in {sizeofOptionalHeader32,
                                   sizeofOptionalHeader64}
                 THEN d.optsize ELSE 0
        dataStart == Len(dos) + FileHeaderSize + ohLen + SectionHeaderSize * n
        tailStart == dataStart + RawBefore(d.secs, n + 1)
        Pointer(where) ==
            CASE where = "tail" -> U(tailStart)
              [] where = "far" -> Far32
              [] OTHER -> Zero32
        fh == LE16B(d.machine) \o LE16B(n) \o Zeros(4)
                  \o LE32B(Pointer(d.symtab)) \o LE32B(U(d.nsyms))
                  \o LE16B(d.optsize) \o Zeros(2)
        dd1 == LE32B(d.dirVA) \o LE32B(d.dirSize)
        oh == IF d.optsize = sizeofOptionalHeader32
              THEN LE16B(d.magic) \o Zeros(102) \o dd1 \o Zeros(112)
              ELSE IF d.optsize = sizeofOptionalHeader64
              THEN LE16B(d.magic) \o Zeros(118) \o dd1 \o Zeros(112)
              ELSE <<>>
        Header(i) ==
            LET s == d.secs[i]
            IN  Pad(s.name, 8) \o LE32B(s.vsize) \o LE32B(s.va) \o LE32B(s.size)
                    \o (IF s.zeroPtr THEN Zeros(4)
                        ELSE LE32B(U(dataStart + RawBefore(d.secs, i))))
                    \o LE32B(Pointer(s.relocs)) \o Zeros(4)
                    \o LE16B(IF s.relocs = "none" THEN 0 ELSE 1) \o Zeros(6)
        all == dos \o fh \o oh \o Concat([i \in 1..n |-> Header(i)])
                   \o Concat([i \in 1..n |-> d.secs[i].raw]) \o d.tail
    IN  IF d.kind = "raw" THEN d.bytes
        ELSE IF d.cut > 0 /\ d.cut < Len(all) THEN SubSeq(all, 1, d.cut)
        ELSE all

\* ------------------------------------------------------------------------
\* The images probed
\* ------------------------------------------------------------------------

Base ==
    [kind |-> "pe", bytes |-> <<>>, mz |-> TRUE, lfanew |-> U(64),
     hdrAt |-> 64, sig |-> PeSignature, machine |-> IMAGE_FILE_MACHINE_I386,
     optsize |-> sizeofOptionalHeader32, magic |-> Magic32,
     symtab |-> "none", nsyms |-> 0, dirVA |-> Zero32, dirSize |-> Zero32,
     secs |-> <<>>, tail |-> <<>>, cut |-> 0, imports |-> <<>>,
     fam |-> "header"]

Sec(name, va, raw) ==
    [name |-> name, va |-> va, vsize |-> U(Len(raw)), raw |-> raw,
     size |-> U(Len(raw)), zeroPtr |-> FALSE, relocs |-> "none"]

\* the optional header a linker writes for a machine
OptFor(machine) ==
    IF machine = IMAGE_FILE_MACHINE_AMD64
    THEN [optsize |-> sizeofOptionalHeader64, magic |-> Magic64]
    ELSE [optsize |-> sizeofOptionalHeader32, magic |-> Magic32]

ForMachine(d, machine) ==
    [d EXCEPT !.machine = machine, !.optsize = OptFor(machine).optsize,
              !.magic = OptFor(machine).magic]

\* the machines NewFile accepts, and ARM (0x1c0), which it does not
Machines ==
    {IMAGE_FILE_MACHINE_UNKNOWN, IMAGE_FILE_MACHINE_I386,
     IMAGE_FILE_MACHINE_AMD64, 448}

RsrcSec == Sec(RsrcName, U(12288), <<1, 2, 3, 4, 5, 6, 7, 8>>)
TextSec == Sec(<<46, 116, 101, 120, 116>>, U(4096), <<144, 144, 144, 144, 195>>)
BssSec ==
    [Sec(<<46, 98, 115, 115>>, U(16384), <<>>) EXCEPT
        !.size = U(6), !.vsize = U(6), !.zeroPtr = TRUE]

\* a source file, a fragment of one, nothing at all
RawImages ==
    {[Base EXCEPT !.kind = "raw", !.fam = "raw", !.bytes = b] :
        b \in {<<35, 105, 110, 99, 108, 117, 100, 101>> \o [i \in 1..92 |-> 32],
               <<35, 105, 110, 99, 108, 117, 100, 101, 32, 60>>,
               <<>>}}

\* DOS stub and signature
SignatureImages ==
    {[ForMachine(Base, m) EXCEPT !.fam = "signature", !.sig = sg,
                                 !.lfanew = at, !.secs = <<RsrcSec>>] :
        m \in Machines,
        sg \in {PeSignature, <<80, 69, 0, 1>>, <<78, 69, 0, 0>>},
        at \in {U(64), Far32}}

\* no DOS stub: a COFF object read from offset 0
ObjectImages ==
    {[ForMachine(Base, m) EXCEPT !.fam = "object", !.mz = FALSE,
                                 !.secs = ss] :
        m \in Machines, ss \in {<<>>, <<TextSec, RsrcSec>>}}

\* machine, optional header size and magic in every combination
OptionalHeaderImages ==
    {[Base EXCEPT !.fam = "optional", !.machine = m, !.optsize = sz,
                  !.magic = mg, !.secs = ss] :
        m \in Machines \ {448},
        sz \in {0, sizeofOptionalHeader32 - 1, sizeofOptionalHeader32,
                sizeofOptionalHeader64},
        mg \in {Magic32, Magic64},
        ss \in {<<>>, <<[TextSec EXCEPT !.va = Zero32], RsrcSec>>}}

\* sources that end early
TruncatedImages ==
    {[Base EXCEPT !.fam = "truncated", !.hdrAt = h, !.lfanew = U(h),
                  !.cut = c, !.secs = <<TextSec, RsrcSec>>] :
        h \in {64, 90}, c \in {50, 96, 100, 200, 340, 395}}

\* symbol table, string table, long section names, relocations
OneSymbol == <<0, 0, 0, 0, 4, 0, 0, 0>> \o Zeros(10)
StringTable4 == <<10, 0, 0, 0>> \o RsrcName \o <<0>>

SymbolImages ==
    {[Base EXCEPT !.fam = "symbols", !.symtab = "far", !.secs = <<RsrcSec>>],
     [Base EXCEPT !.fam = "symbols", !.symtab = "tail", !.nsyms = 1,
                  !.secs = <<Sec(<<47, 52>>, U(12288), <<1, 2, 3, 4>>)>>,
                  !.tail = OneSymbol \o StringTable4],
     [Base EXCEPT !.fam = "symbols", !.symtab = "tail", !.nsyms = 1,
                  !.secs = <<RsrcSec>>, !.tail = OneSymbol],
     [Base EXCEPT !.fam = "symbols", !.symtab = "tail", !.nsyms = 2,
                  !.secs = <<RsrcSec>>, !.tail = OneSymbol \o StringTable4],
     [Base EXCEPT !.fam = "symbols", !.symtab = "tail", !.nsyms = 1,
                  !.secs = <<RsrcSec>>,
                  !.tail = <<0, 0, 0, 0, 99, 0, 0, 0>> \o Zeros(10)
                               \o StringTable4],
     [Base EXCEPT !.fam = "symbols",
                  !.secs = <<Sec(<<47, 52>>, U(12288), <<1, 2, 3, 4>>)>>],
     [Base EXCEPT !.fam = "symbols",
                  !.secs = <<Sec(<<47, 120>>, U(12288), <<1, 2, 3, 4>>)>>],
     [Base EXCEPT !.fam = "symbols",
                  !.secs = <<[RsrcSec EXCEPT !.relocs = "far"]>>],
     [Base EXCEPT !.fam = "symbols", !.tail = Zeros(RelocSize),
                  !.secs = <<[RsrcSec EXCEPT !.relocs = "tail"]>>]}

\* sections with and without raw data
SectionImages ==
    {[ForMachine(Base, m) EXCEPT !.fam = "sections", !.secs = ss] :
        m \in {IMAGE_FILE_MACHINE_I386, IMAGE_FILE_MACHINE_AMD64},
        ss \in {<<BssSec>>, <<BssSec, RsrcSec>>, <<TextSec, BssSec>>,
                <<RsrcSec, RsrcSec>>,
                <<[TextSec EXCEPT !.size = U(200)]>>}}

\* import directories: every library of an image has the same kinds of
\* thunk, the last library's name may be misplaced
IdataName == <<46, 105, 100, 97, 116, 97>>
IdataVA == U(8192)
ImportDirVA == U(8200)

ThunkKinds == {"name", "ord", "far"}
NamePlaces == {"ok", "far", "before", "open"}

LibName(i) == <<96 + i, 46, 100>>
FnName(i, k) == <<101 + i, 48 + k>>

Imports(n, kinds, place) ==
    [i \in 1..n |->
        [name |-> LibName(i),
         nameAt |-> IF i = n THEN place ELSE "ok",
         thunks |-> [k \in 1..Len(kinds) |->
                        [kind |-> kinds[k],
                         fn |-> IF kinds[k] = "name" THEN FnName(i, k)
                                ELSE <<>>]]]]

ThunkWidth(machine) == IF machine = IMAGE_FILE_MACHINE_AMD64 THEN 8 ELSE 4

IdataSec(raw) == Sec(IdataName, IdataVA, [i \in 1..8 |-> 255] \o raw)

WithImports(d, imports) ==
    [d EXCEPT !.fam = "imports", !.imports = imports,
              !.dirVA = ImportDirVA,
              !.dirSize = U(ImportDescriptorSize * (Len(imports) + 1)),
              !.secs = <<TextSec,
                         IdataSec(ImportData(imports, ImportDirVA,
                                             ThunkWidth(d.machine)))>>]

ImportImages ==
    {WithImports(ForMachine(Base, m), Imports(n, kinds, place)) :
        m \in {IMAGE_FILE_MACHINE_I386, IMAGE_FILE_MACHINE_AMD64},
        n \in 0..MaxDlls,
        kinds \in UNION {[1..k -> ThunkKinds] : k \in 0..MaxThunks},
        place \in NamePlaces}

\* one descriptor: OriginalFirstThunk, Name
OneDescriptor(oft, name) ==
    LE32B(oft) \o Zeros(8) \o LE32B(name) \o LE32B(oft)

\* import directories that no section holds, or whose section is cut short
ImportFaultSections ==
    {<<TextSec, RsrcSec>>,
     <<>>,
     <<IdataSec(Zeros(ImportDescriptorSize))>>,
     <<[IdataSec(Zeros(ImportDescriptorSize)) EXCEPT !.vsize = U(20)],
       RsrcSec>>,
     <<[IdataSec(Zeros(ImportDescriptorSize)) EXCEPT !.size = U(300)],
       RsrcSec>>,
     <<[IdataSec(Zeros(ImportDescriptorSize)) EXCEPT !.size = U(300)]>>,
     <<[Sec(IdataName, IdataVA, <<1, 2, 3, 4>>) EXCEPT !.vsize = U(100)],
       RsrcSec>>,
     <<IdataSec(OneDescriptor(Add32(ImportDirVA, U(20)), Far32)
                    \o <<1, 2, 3, 4, 5>>),
       RsrcSec>>,
     <<IdataSec(OneDescriptor(Add32(ImportDirVA, U(20)), Far32)), RsrcSec>>,
     <<IdataSec(OneDescriptor(Far32, Add32(ImportDirVA, U(20)))
                    \o <<76, 0>> \o Zeros(18)),
       RsrcSec>>,
     <<[Sec(IdataName, IdataVA, <<>>) EXCEPT
           !.size = U(48), !.vsize = U(48), !.zeroPtr = TRUE],
       RsrcSec>>}

ImportFaultImages ==
    {[ForMachine(Base, m) EXCEPT !.fam = "importfaults",
                                 !.dirVA = ImportDirVA,
                                 !.dirSize = U(ImportDescriptorSize),
                                 !.secs = ss] :
        m \in {IMAGE_FILE_MACHINE_I386, IMAGE_FILE_MACHINE_AMD64},
        ss \in ImportFaultSections}

Images ==
    RawImages \cup SignatureImages \cup ObjectImages
        \cup OptionalHeaderImages \cup TruncatedImages \cup SymbolImages
        \cup SectionImages \cup ImportImages \cup ImportFaultImages

\* ------------------------------------------------------------------------
\* State
\* ------------------------------------------------------------------------

VARIABLES
    img,          \* the description the byte source was laid out from
    file,         \* the byte source
    op,           \* what the caller runs: "probe", "symbols" or "read"
    strict,       \* params.Strict
    statOk,       \* whether file.Stat() succeeds
    pc,           \* the caller's position
    pf,           \* the *pe.File NewFile returned
    info,         \* the PeInfo Probe is filling
    ret,          \* what Probe returned: result, the PeInfo (or none), error
    warnings,     \* consumer.Warnf calls so far
    called,       \* the parsers Probe has called
    syms,         \* what ImportedSymbols returned
    rd            \* what a section's ReadAt returned, and what it read

vars ==
    <<img, file, op, strict, statOk, pc, pf, info, ret, warnings, called,
      syms, rd>>

NoInfo == [Arch |-> "", Imports |-> <<>>, VersionProperties |-> {}]
NoRet == [result |-> "none", info |-> <<>>, err |-> "", context |-> ""]
NoSyms == [outcome |-> "none", list |-> <<>>]
NoRead ==
    [sec |-> 0, off |-> 0, n |-> 0, data |-> <<>>, err |-> FALSE, reads |-> {}]

Init ==
    /\ img \in Images
    /\ file = Build(img)
    /\ op \in {"probe", "symbols", "read"}
    /\ strict \in (IF op = "probe" THEN BOOLEAN ELSE {FALSE})
    /\ statOk \in (IF op = "probe" THEN BOOLEAN ELSE {TRUE})
    /\ pc = "start"
    /\ pf = NoFile
    /\ info = NoInfo
    /\ ret = NoRet
    /\ warnings = <<>>
    /\ called = {}
    /\ syms = NoSyms
    /\ rd = NoRead

\* ------------------------------------------------------------------------
\* Probe
\* ------------------------------------------------------------------------

\* return nil, err
ReturnError(kind, context) ==
    [result |-> "err", info |-> <<>>, err |-> kind, context |-> context]

\* stats, err := file.Stat()
ProbeStat ==
    /\ op = "probe" /\ pc = "start"
    /\ IF statOk
       THEN pc' = "newfile" /\ ret' = ret
       ELSE pc' = "done" /\ ret' = ReturnError("stat", "")
    /\ UNCHANGED <<img, file, op, strict, statOk, pf, info, warnings, called,
                   syms, rd>>

ParseFailedWhenStrict(f, s) == ~f.ok /\ s

\* if err != nil, after pe.NewFile: strict plays no part
ParseFailed(f, s) == ~f.ok

\* pf, err := pe.NewFile(file, stats.Size())
ProbeNewFile ==
    /\ op = "probe" /\ pc = "newfile"
    /\ pf' = NewFile(file, Len(file))
    /\ called' = called \cup {"NewFile"}
    /\ IF ParseFailed(pf', strict)
       THEN pc' = "done" /\ ret' = ReturnError(pf'.err, "")
       ELSE pc' = "arch" /\ ret' = ret
    /\ UNCHANGED <<img, file, op, strict, statOk, info, warnings, syms, rd>>

ArchOfSwapped(machine) ==
    IF machine = IMAGE_FILE_MACHINE_I386 THEN "amd64"
    ELSE IF machine = IMAGE_FILE_MACHINE_AMD64 THEN "386"
    ELSE ""

\* switch pf.Machine
ArchOf(machine) ==
    IF machine = IMAGE_FILE_MACHINE_I386 THEN "386"
    ELSE IF machine = IMAGE_FILE_MACHINE_AMD64 THEN "amd64"
    ELSE ""

\* info := &PeInfo{...}; switch pf.Machine
ProbeArch ==
    /\ op = "probe" /\ pc = "arch"
    /\ info' = [NoInfo EXCEPT !.Arch = ArchOf(pf.Machine)]
    /\ pc' = "imports"
    /\ UNCHANGED <<img, file, op, strict, statOk, pf, ret, warnings, called,
                   syms, rd>>

FatalNever(s) == FALSE

\* if params.Strict
Fatal(s) == s

\* imports, err := pf.ImportedLibraries()
ProbeImports ==
    /\ op = "probe" /\ pc = "imports"
    /\ called' = called \cup {"ImportedLibraries"}
    /\ LET imports == ImportedLibraries(pf, file)
       IN  CASE imports.outcome = "panic" ->
                  /\ pc' = "done"
                  /\ ret' = [NoRet EXCEPT !.result = "panic"]
                  /\ UNCHANGED <<info, warnings>>
             [] imports.outcome = "err" /\ Fatal(strict) ->
                  /\ pc' = "done"
                  /\ ret' = ReturnError("data",
                                        "while parsing imported libraries")
                  /\ UNCHANGED <<info, warnings>>
             [] imports.outcome = "err" /\ ~Fatal(strict) ->
                  /\ warnings' = Append(warnings, "imported libraries")
                  /\ info' = [info EXCEPT !.Imports = imports.list]
                  /\ pc' = "resources"
                  /\ ret' = ret
             [] OTHER ->
                  /\ info' = [info EXCEPT !.Imports = imports.list]
                  /\ pc' = "resources"
                  /\ UNCHANGED <<ret, warnings>>
    /\ UNCHANGED <<img, file, op, strict, statOk, pf, syms, rd>>

\* params.parseResources(info, sect): it fills VersionProperties, or fails
\* and leaves them as they were
ResourceOutcomes ==
    {[err |-> FALSE, props |-> {}],
     [err |-> FALSE, props |-> {<<"CompanyName", "itch corp.">>,
                                <<"FileVersion", "3.14">>}],
     [err |-> TRUE, props |-> {}]}

\* sect := pf.Section(".rsrc"); if sect != nil { parseResources }; return
ProbeResources ==
    /\ op = "probe" /\ pc = "resources"
    /\ IF Section(pf, RsrcName) = 0
       THEN /\ pc' = "done"
            /\ ret' = [NoRet EXCEPT !.result = "ok", !.info = <<info>>]
            /\ UNCHANGED <<info, warnings, called>>
       ELSE \E o \in ResourceOutcomes :
            /\ called' = called \cup {"parseResources"}
                           \cup (IF o.err THEN {"parseResources failed"}
                                 ELSE {})
            /\ pc' = "done"
            /\ IF o.err /\ Fatal(strict)
               THEN /\ ret' = ReturnError("resources",
                                          "while parsing resources")
                    /\ UNCHANGED <<info, warnings>>
               ELSE /\ info' = [info EXCEPT !.VersionProperties = o.props]
                    /\ warnings' = IF o.err
                                   THEN Append(warnings, "resources")
                                   ELSE warnings
                    /\ ret' = [NoRet EXCEPT !.result = "ok",
                                            !.info = <<info'>>]
    /\ UNCHANGED <<img, file, op, strict, statOk, pf, syms, rd>>

\* ------------------------------------------------------------------------
\* The pe package called directly
\* ------------------------------------------------------------------------

\* f, err := pe.NewFile(r, size)
CallNewFile ==
    /\ op # "probe" /\ pc = "start"
    /\ pf' = NewFile(file, Len(file))
    /\ called' = called \cup {"NewFile"}
    /\ pc' = IF pf'.ok THEN "parsed" ELSE "done"
    /\ UNCHANGED <<img, file, op, strict, statOk, info, ret, warnings, syms,
                   rd>>

\* f.ImportedSymbols()
CallImportedSymbols ==
    /\ op = "symbols" /\ pc = "parsed"
    /\ syms' = ImportedSymbols(pf, file)
    /\ pc' = "done"
    /\ UNCHANGED <<img, file, op, strict, statOk, pf, info, ret, warnings,
                   called, rd>>

\* f.Sections[i].ReadAt(p, off) with len(p) = n
CallReadAt ==
    /\ op = "read" /\ pc = "parsed"
    /\ \E i \in 1..Len(pf.Sections), off \in 0..MaxReadOff, n \in 1..MaxReadLen :
          LET got == SectionReadAt(pf.Sections[i], file, off, n)
          IN  rd' = [sec |-> i, off |-> off, n |-> n, data |-> got.data,
                     err |-> got.err, reads |-> got.reads]
    /\ pc' = "done"
    /\ UNCHANGED <<img, file, op, strict, statOk, pf, info, ret, warnings,
                   called, syms>>

Next ==
    \/ ProbeStat
    \/ ProbeNewFile
    \/ ProbeArch
    \/ ProbeImports
    \/ ProbeResources
    \/ CallNewFile
    \/ CallImportedSymbols
    \/ CallReadAt

Spec == Init /\ [][Next]_vars

\* ------------------------------------------------------------------------
\* Properties
\* ------------------------------------------------------------------------

Range(s) == {s[i] : i \in 1..Len(s)}

ProbeDone == op = "probe" /\ pc = "done" /\ statOk

\* the source begins with the DOS signature
BeginsMZ(b) == Len(b) >= 2 /\ SubSeq(b, 1, 2) = DosSignature

\* the offset stored at 0x3C
Lfanew(b) == Uint32(SubSeq(b, 61, 64))

\* the four bytes at the offset stored at 0x3C can be read
SignatureReadable(b) ==
    Len(b) >= DosHeaderSize /\ ~GeLen(Add64(Lfanew(b), U(3)), Len(b))

\* the source holds 'MZ' and, at the offset stored at 0x3C, 'PE\0\0'
HasDosPeSignature(b) ==
    /\ BeginsMZ(b)
    /\ SignatureReadable(b)
    /\ SubSeq(b, ToInt(Lfanew(b)) + 1, ToInt(Lfanew(b)) + 4) = PeSignature

\* C1 as stated: every source without the DOS signature followed by the PE
\* signature makes Probe fail with a signature error, whatever strict is.
C1_AsStated ==
    (ProbeDone /\ ~HasDosPeSignature(file))
        => (ret.result = "err" /\ ret.err = "signature")

\* C1, amended: a source of at least 96 bytes that begins with 'MZ' and whose
\* four bytes at the offset stored at 0x3C can be read and are not 'PE\0\0'
\* makes Probe fail with a signature error, whatever strict is.  A source
\* that does not begin with 'MZ' is read as a COFF object from offset 0 and
\* never fails with a signature error: it fails with a read error when it is
\* shorter than 96 bytes and with an unsupported-machine error when its first
\* 16-bit word is none of 0, 0x14c, 0x8664.
C1_SignatureError ==
    ProbeDone =>
        /\ (BeginsMZ(file) /\ SignatureReadable(file)
                /\ ~HasDosPeSignature(file))
              => (ret.result = "err" /\ ret.err = "signature"
                    /\ ret.info = <<>>)
        /\ ret.err = "signature" => BeginsMZ(file)
        /\ (~BeginsMZ(file) /\ Len(file) < DosHeaderSize)
              => (ret.result = "err" /\ ret.err = "read")
        /\ (~BeginsMZ(file) /\ Len(file) >= DosHeaderSize
                /\ Uint16(file) \notin {IMAGE_FILE_MACHINE_UNKNOWN,
                                        IMAGE_FILE_MACHINE_I386,
                                        IMAGE_FILE_MACHINE_AMD64})
              => (ret.result = "err" /\ ret.err = "machine")

\* a lenient probe of a source with 'MZ' and a wrong PE signature has failed
\* with a signature error
C1_Witness ==
    /\ ProbeDone /\ ~strict
    /\ BeginsMZ(file) /\ SignatureReadable(file) /\ ~HasDosPeSignature(file)
    /\ ret.result = "err" /\ ret.err = "signature"

\* C2: when ImportedLibraries returns an error during Probe, a strict probe
\* returns that error with the context "while parsing imported libraries"
\* and no PeInfo; a lenient probe warns once, leaves Imports empty and goes
\* on to the resource step.
C2_ImportError ==
    (op = "probe" /\ "ImportedLibraries" \in called
        /\ ImportedLibraries(pf, file).outcome = "err")
    => IF strict
       THEN /\ pc = "done"
            /\ ret.result = "err" /\ ret.info = <<>>
            /\ ret.context = "while parsing imported libraries"
            /\ warnings = <<>>
            /\ "parseResources" \notin called
       ELSE /\ pc \in {"resources", "done"}
            /\ Len(warnings) >= 1 /\ warnings[1] = "imported libraries"
            /\ \A i \in 2..Len(warnings) : warnings[i] # "imported libraries"
            /\ info.Imports = <<>>
            /\ pc = "resources" => (ret = NoRet /\ Len(warnings) = 1)
            /\ pc = "done" =>
                  /\ ret.result = "ok" /\ ret.info[1].Imports = <<>>
                  /\ Section(pf, RsrcName) # 0 => "parseResources" \in called

\* a lenient probe stands at the resource step with the one warning of a
\* failed ImportedLibraries
C2_Witness ==
    /\ op = "probe" /\ ~strict /\ pc = "resources"
    /\ ImportedLibraries(pf, file).outcome = "err"
    /\ warnings = <<"imported libraries">>
    /\ Section(pf, RsrcName) # 0

\* C3: with a section named ".rsrc" whose parsing fails, a strict probe
\* fails and returns no PeInfo; a lenient probe succeeds, has warned, and
\* returns a PeInfo with no version properties.  Without such a section
\* resource parsing is never attempted and brings no error and no warning.
C3_ResourceError ==
    (op = "probe" /\ pc = "done")
    => /\ "parseResources failed" \in called
          => /\ \E i \in 1..Len(pf.Sections) : pf.Sections[i].Name = RsrcName
             /\ IF strict
                THEN /\ ret.result = "err" /\ ret.info = <<>>
                     /\ ret.context = "while parsing resources"
                ELSE /\ ret.result = "ok"
                     /\ "resources" \in Range(warnings)
                     /\ ret.info[1].VersionProperties = {}
       /\ (pf.ok /\ ~(\E i \in 1..Len(pf.Sections) :
                          pf.Sections[i].Name = RsrcName))
          => /\ "parseResources" \notin called
             /\ "resources" \notin Range(warnings)
             /\ ret.err # "resources"
             /\ ret.context # "while parsing resources"

\* a lenient probe of an image with a ".rsrc" section that does not parse
\* has succeeded with a warning
C3_Witness ==
    /\ op = "probe" /\ pc = "done" /\ ~strict
    /\ "parseResources failed" \in called
    /\ ret.result = "ok" /\ warnings = <<"resources">>
    /\ ret.info[1].VersionProperties = {}

\* C4: whatever makes NewFile fail, Probe returns an error and no PeInfo,
\* strict or not; nothing is parsed afterwards and nothing of a PeInfo is
\* built.
C4_ParseFailureFatal ==
    (op = "probe" /\ "NewFile" \in called /\ ~pf.ok)
    => /\ pc = "done"
       /\ ret.result = "err" /\ ret.info = <<>> /\ ret.err = pf.err
       /\ ret.err \in {"read", "signature", "machine", "strtab", "symbols",
                       "magic", "name", "relocs"}
       /\ called = {"NewFile"}
       /\ info = NoInfo /\ warnings = <<>>
       /\ pf = Fail(pf.err)

\* a lenient probe has failed on an optional header with the wrong magic
C4_Witness ==
    /\ op = "probe" /\ ~strict /\ pc = "done"
    /\ "NewFile" \in called /\ ~pf.ok /\ pf.err = "magic"
    /\ ret.result = "err" /\ ret.info = <<>>

\* C5: once an image has parsed, Probe's arch is "386" for machine I386 and
\* "amd64" for machine AMD64, whatever strict is and whatever import and
\* resource parsing warn about later.
C5_Arch ==
    (op = "probe" /\ pf.ok /\ pc \in {"imports", "resources", "done"})
    => /\ img.machine = IMAGE_FILE_MACHINE_I386 => info.Arch = "386"
       /\ img.machine = IMAGE_FILE_MACHINE_AMD64 => info.Arch = "amd64"
       /\ ret.result = "ok" => ret.info[1].Arch = info.Arch

\* a lenient probe of a 64-bit image has succeeded with two warnings
C5_Witness ==
    /\ op = "probe" /\ pc = "done" /\ ret.result = "ok"
    /\ img.machine = IMAGE_FILE_MACHINE_AMD64
    /\ ret.info[1].Arch = "amd64"
    /\ Len(warnings) = 2

\* C6 as stated: every PeInfo a successful Probe returns has arch "386" or
\* "amd64".
C6_AsStated ==
    (op = "probe" /\ ret.result = "ok")
        => ret.info[1].Arch \in {"386", "amd64"}

\* C6, amended: every PeInfo a successful Probe returns has arch "386",
\* "amd64" or the empty string, and the empty string exactly when the
\* machine is IMAGE_FILE_MACHINE_UNKNOWN (0), which NewFile accepts; every
\* machine value other than unknown, I386 and AMD64 has been rejected by
\* NewFile as a fatal error.
C6_ArchOrUnknown ==
    /\ (op = "probe" /\ ret.result = "ok")
       => /\ ret.info[1].Arch \in {"386", "amd64", ""}
          /\ ret.info[1].Arch = "" <=>
                img.machine = IMAGE_FILE_MACHINE_UNKNOWN
    /\ (op = "probe" /\ pf.ok)
       => img.machine \in {IMAGE_FILE_MACHINE_UNKNOWN,
                           IMAGE_FILE_MACHINE_I386, IMAGE_FILE_MACHINE_AMD64}
    /\ (ProbeDone /\ img.kind = "pe" /\ HasDosPeSignature(file)
           /\ img.cut = 0
           /\ img.machine \notin {IMAGE_FILE_MACHINE_UNKNOWN,
                                  IMAGE_FILE_MACHINE_I386,
                                  IMAGE_FILE_MACHINE_AMD64})
       => (ret.result = "err" /\ ret.err = "machine")

\* a probe of an image of unknown machine has succeeded with an empty arch
C6_Witness ==
    /\ op = "probe" /\ ret.result = "ok"
    /\ img.machine = IMAGE_FILE_MACHINE_UNKNOWN
    /\ ret.info[1].Arch = ""

SymbolsDone == op = "symbols" /\ pc = "done"

\* what the description of one library resolves to: a name per thunk that
\* is not an ordinal, empty where the name cannot be resolved
ExpectedOfLibrary(lib) ==
    LET named == SelectSeq(lib.thunks, LAMBDA t : t.kind # "ord")
        dll == IF lib.nameAt = "ok" THEN lib.name ELSE <<>>
    IN  [k \in 1..Len(named) |-> named[k].fn \o <<58>> \o dll]

ExpectedSymbols(imports) ==
    Concat([i \in 1..Len(imports) |-> ExpectedOfLibrary(imports[i])])

\* the thunk entries of a description that are not ordinals
NamedThunks(imports) ==
    {<<i, k>> \in (1..Len(imports)) \X (1..MaxThunks + 1) :
        k <= Len(imports[i].thunks) /\ imports[i].thunks[k].kind # "ord"}

\* C7: for 4-byte and 8-byte thunks alike, an ordinal entry adds nothing to
\* what ImportedSymbols returns and does not end the walk: the entries after
\* it are resolved, in order, and as many strings are returned as there are
\* entries that are not ordinals.
C7_OrdinalsSkipped ==
    (SymbolsDone /\ img.fam = "imports")
    => /\ syms.outcome = "ok"
       /\ syms.list = ExpectedSymbols(img.imports)
       /\ Len(syms.list) = Cardinality(NamedThunks(img.imports))

\* ImportedSymbols of a 64-bit image whose libraries each import an ordinal
\* and then a name has returned the names alone
C7_Witness ==
    /\ SymbolsDone /\ img.fam = "imports"
    /\ img.machine = IMAGE_FILE_MACHINE_AMD64
    /\ Len(img.imports) = 2
    /\ \A i \in 1..2 : Len(img.imports[i].thunks) = 2
                        /\ img.imports[i].thunks[1].kind = "ord"
                        /\ img.imports[i].thunks[2].kind = "name"
    /\ img.imports[2].nameAt = "ok"
    /\ syms.list = <<FnName(1, 2) \o <<58>> \o LibName(1),
                     FnName(2, 2) \o <<58>> \o LibName(2)>>

\* a library name or a function name of the description lies outside the
\* section slice or has no terminator
UnresolvableLibrary(imports) ==
    \E i \in 1..Len(imports) : imports[i].nameAt # "ok"

UnresolvableName(imports) ==
    \/ UnresolvableLibrary(imports)
    \/ \E i \in 1..Len(imports) : \E k \in 1..Len(imports[i].thunks) :
          imports[i].thunks[k].kind = "far"

\* C8 as stated: a library or function name outside the section slice, or
\* without a terminator, makes ImportedLibraries and ImportedSymbols return
\* an error, which Probe treats as strict tells it to.
C8_AsStated ==
    /\ (SymbolsDone /\ img.fam = "imports" /\ UnresolvableName(img.imports))
       => syms.outcome = "err"
    /\ (op = "probe" /\ pc = "done" /\ statOk /\ img.fam = "imports"
           /\ UnresolvableLibrary(img.imports))
       => IF strict
          THEN ret.result = "err"
                  /\ ret.context = "while parsing imported libraries"
          ELSE "imported libraries" \in Range(warnings)

\* no section of the description holds the whole of its import directory
NoSectionHolds(d) ==
    \A i \in 1..Len(d.secs) :
        ~(/\ Le64(d.secs[i].va, d.dirVA)
          /\ Le64(Add64(d.dirVA, d.dirSize),
                  Add64(d.secs[i].va, d.secs[i].vsize)))

DirectoryHomeless == pf.ok /\ pf.OptionalHeader # "none" /\ NoSectionHolds(img)

\* C9 as stated: when no section holds the import directory,
\* ImportedSymbols returns an empty list and no error, and Probe succeeds
\* with empty imports and without a warning, strict or not.
C9_AsStated ==
    DirectoryHomeless =>
        /\ SymbolsDone => syms = [outcome |-> "ok", list |-> <<>>]
        /\ (op = "probe" /\ pc = "done")
           => (ret.result = "ok" /\ ret.info[1].Imports = <<>>
                 /\ warnings = <<>>)

\* C9, amended: when no section holds the import directory, ImportedSymbols
\* and ImportedLibraries return an empty list and no error, so the import
\* step of Probe leaves imports empty and adds no error and no warning,
\* strict or not; Probe then succeeds without a warning unless the parsing
\* of a ".rsrc" section fails, which a strict probe returns as its error
\* and a lenient probe warns about.
C9_NoSectionNoImports ==
    DirectoryHomeless =>
        /\ SymbolsDone => syms = [outcome |-> "ok", list |-> <<>>]
        /\ (op = "probe" /\ "ImportedLibraries" \in called)
           => /\ pc \in {"resources", "done"}
              /\ info.Imports = <<>>
              /\ "imported libraries" \notin Range(warnings)
              /\ ret.result # "panic"
              /\ ret.context # "while parsing imported libraries"
              /\ pc = "resources" => (ret = NoRet /\ warnings = <<>>)
              /\ (pc = "done" /\ "parseResources failed" \notin called)
                 => (ret.result = "ok" /\ ret.info[1].Imports = <<>>
                       /\ warnings = <<>>)
              /\ (pc = "done" /\ "parseResources failed" \in called)
                 => IF strict
                    THEN ret.result = "err"
                            /\ ret.context = "while parsing resources"
                    ELSE ret.result = "ok" /\ ret.info[1].Imports = <<>>
                            /\ warnings = <<"resources">>

\* a strict probe of an image whose import directory lies in no section has
\* succeeded with empty imports and no warning
C9_Witness ==
    /\ op = "probe" /\ strict /\ pc = "done"
    /\ DirectoryHomeless /\ img.dirVA = ImportDirVA /\ Len(img.secs) = 2
    /\ ret.result = "ok" /\ ret.info[1].Imports = <<>> /\ warnings = <<>>

ReadDone == op = "read" /\ pc = "done" /\ rd.sec > 0

\* C10: a read through the accessor of a section whose raw-data pointer is
\* zero, at any offset within the section's size, returns zero bytes only
\* (as many as were asked for, or as the section has left) and reads nothing
\* from the byte source; a read through any other section's accessor reads
\* the byte source within [Offset, Offset+Size) only.
C10_SectionReads ==
    ReadDone =>
        LET s == pf.Sections[rd.sec]
        IN  /\ s.Offset = Zero32
               => /\ rd.reads = {}
                  /\ \A i \in 1..Len(rd.data) : rd.data[i] = 0
                  /\ ~Le64(s.Size, U(rd.off))
                     => /\ Len(rd.data) <= rd.n
                        /\ Len(rd.data) = rd.n \/
                              U(rd.off + Len(rd.data)) = s.Size
            /\ s.Offset # Zero32
               => \A x \in rd.reads :
                     /\ Le64(s.Offset, x[1])
                     /\ Le64(Add64(x[1], U(x[2])), Add64(s.Offset, s.Size))

\* a read of three bytes at offset 2 of a section without raw data has
\* returned three zero bytes
C10_Witness ==
    /\ ReadDone /\ pf.Sections[rd.sec].Offset = Zero32
    /\ pf.Sections[rd.sec].Size = U(6)
    /\ rd.off = 2 /\ rd.n = 3 /\ rd.data = <<0, 0, 0>> /\ rd.reads = {}


\* the import directory lies in a section whose data can be read
DirectoryHoused ==
    /\ pf.ok /\ pf.OptionalHeader # "none"
    /\ ImportSection(pf) # 0
    /\ ~Data(pf.Sections[ImportSection(pf)], file).err

\* C11 as stated: with the import directory inside a section, the walk over
\* the import descriptors ends without a crash whatever the section holds
\* (raw data shorter than the directory's offset, fewer than 20 bytes left,
\* a thunk array outside the slice), and the list returned has one entry
\* per descriptor before the terminator.
C11_AsStated ==
    DirectoryHoused =>
        /\ SymbolsDone => syms.outcome = "ok"
        /\ (op = "probe" /\ "ImportedLibraries" \in called)
           => /\ ret.result # "panic"
              /\ img.fam = "imports" => Len(info.Imports) = Len(img.imports)


\* the parsed image has no optional header
NoOptionalHeader == pf.ok /\ pf.OptionalHeader = "none"

\* C12 as stated: without an optional header ImportedLibraries and
\* ImportedSymbols choose no section, so they read no section data and
\* decode no descriptor, and return an empty list and no error, whatever the
\* virtual addresses of the sections are.
C12_AsStated ==
    NoOptionalHeader =>
        /\ ImportSection(pf) = 0
        /\ SymbolsDone => syms = [outcome |-> "ok", list |-> <<>>]
        /\ (op = "probe" /\ "ImportedLibraries" \in called)
           => (ret.result # "panic" /\ info.Imports = <<>>
                 /\ "imported libraries" \notin Range(warnings))


\* where the COFF file header of the source begins: after the PE signature,
\* or at 0 in a source without the DOS signature
HeaderAt == IF BeginsMZ(file) THEN ToInt(Lfanew(file)) + 4 ELSE 0

\* the source holds a whole file header, and the two bytes after it
HeaderReadable ==
    /\ BeginsMZ(file) => HasDosPeSignature(file)
    /\ Len(file) >= HeaderAt + FileHeaderSize + 2

\* SizeOfOptionalHeader and the two bytes after the file header, as the
\* source holds them
SizeOfOptionalHeader ==
    Uint16(SubSeq(file, HeaderAt + 17, HeaderAt + 18))

MagicHeld ==
    Uint16(SubSeq(file, HeaderAt + FileHeaderSize + 1,
                  HeaderAt + FileHeaderSize + 2))

\* C13: once NewFile has succeeded, the optional header is the 32-bit
\* variant exactly when SizeOfOptionalHeader is the size of the 32-bit
\* layout, and its Magic is then 0x10B; the 64-bit variant exactly when it
\* is the size of the 64-bit layout, and its Magic is then 0x20B; and none
\* otherwise.  A size of a known layout whose optional header can be read
\* and holds another Magic makes NewFile fail, with the magic error when
\* nothing before the optional header failed.
C13_OptionalHeader ==
    ("NewFile" \in called /\ HeaderReadable) =>
        /\ pf.ok =>
              /\ pf.OptionalHeader \in {"oh32", "oh64", "none"}
              /\ pf.OptionalHeader = "oh32" <=>
                     SizeOfOptionalHeader = sizeofOptionalHeader32
              /\ pf.OptionalHeader = "oh64" <=>
                     SizeOfOptionalHeader = sizeofOptionalHeader64
              /\ pf.OptionalHeader = "oh32" => MagicHeld = Magic32
              /\ pf.OptionalHeader = "oh64" => MagicHeld = Magic64
        /\ \/ SizeOfOptionalHeader = sizeofOptionalHeader32
                 /\ MagicHeld # Magic32
           \/ SizeOfOptionalHeader = sizeofOptionalHeader64
                 /\ MagicHeld # Magic64
           => /\ ~pf.ok /\ pf = Fail(pf.err)
              /\ (img.fam = "optional"
                     /\ Len(file) >= HeaderAt + FileHeaderSize
                                        + SizeOfOptionalHeader)
                 => pf.err = "magic"

\* NewFile has refused a 64-bit optional header holding the Magic 0x10B
C13_Witness ==
    /\ "NewFile" \in called /\ HeaderReadable
    /\ SizeOfOptionalHeader = sizeofOptionalHeader64 /\ MagicHeld = Magic32
    /\ ~pf.ok /\ pf.err = "magic"

====
